---- MODULE Spec2Model ----
(***************************************************************************)
(* Backward-induction settlement placement solver (solver.py) over the     *)
(* State model (state.py) and the board tables (board.py).                 *)
(*                                                                         *)
(* A client owns one board.  Either it exercises a State object directly   *)
(* (place_settlement, quality_of_player), or it constructs one Solver per  *)
(* setting of the flags, calls dfs(1, State(board)) on it, and solve().    *)
(* The recursion of dfs is unfolded into an explicit call stack.           *)
(***************************************************************************)
EXTENDS Integers, Sequences, FiniteSets, TLC

\* ------------------------------------------------------------------ bounds
NumVertices == 5
MaxQ == 2
MaxPlacements == 3
MaxSolveCalls == 2

\* ------------------------------------------------------- program constants
MinPlayers == 2
MaxPlayers == 4
NumHouseLists == 4
NegInf == -1
None == 0

Vertices == 1..NumVertices
HousePlayers == 1..NumHouseLists

\* ------------------------------------------------------------- collections
RECURSIVE SortedList(_)
\* iteration order of a set of small ints: ascending
SortedList(S) ==
    IF S = {} THEN <<>>
    ELSE LET m == CHOOSE x \in S : \A y \in S : x <= y
         IN <<m>> \o SortedList(S \ {m})

Range(seq) == {seq[i] : i \in 1..Len(seq)}

RECURSIVE SortDescending(_)
\* list.sort(reverse=True, key=...): descending by key, equal keys keep
\* their original relative order
SortDescending(pairs) ==
    IF pairs = <<>> THEN <<>>
    ELSE LET best == CHOOSE i \in 1..Len(pairs) :
                        /\ \A j \in 1..Len(pairs) : pairs[j][1] <= pairs[i][1]
                        /\ \A j \in 1..(i - 1) : pairs[j][1] < pairs[i][1]
             rest == [k \in 1..(Len(pairs) - 1) |->
                        IF k < best THEN pairs[k] ELSE pairs[k + 1]]
         IN <<pairs[best]>> \o SortDescending(rest)

\* ------------------------------------------------------------------- board
GraphKinds == 0..2
QualityParams == { <<0, 0, 0, 1>>, <<1, 1, 0, 1>>, <<0, 1, 0, 1>>, <<1, 2, 1, 2>> }

\* Board.vertex_neighbors: symmetric, irreflexive adjacency
vertex_neighbors_of(kind) ==
    [v \in Vertices |->
        CASE kind = 0 -> {}
          [] kind = 1 -> {u \in Vertices : u = v + 1 \/ v = u + 1}
          [] OTHER    -> IF v = 2 THEN Vertices \ {2} ELSE {2} \cap Vertices]

\* Board.pair_quality[player][v1][v2] for player in 1..num_players: the same
\* table for every player, the diagonal is the -inf sentinel
pair_quality_of(q, n) ==
    [p \in 1..n |-> [v1 \in Vertices |-> [v2 \in Vertices |->
        IF v1 = v2 THEN NegInf
        ELSE (q[1] * v1 + q[2] * v2 + q[3] * v1 * v2) % (MaxQ + 1)]]]

\* Board.single_quality[v]
single_quality_of(q) == [v \in Vertices |-> (q[4] * v) % (MaxQ + 1)]

Board(kind, q, n) ==
    [ num_players      |-> n,
      vertices         |-> Vertices,
      vertex_neighbors |-> vertex_neighbors_of(kind),
      single_quality   |-> single_quality_of(q),
      pair_quality     |-> pair_quality_of(q, n) ]

Boards == { Board(k, q, n) : k \in GraphKinds, q \in QualityParams,
                             n \in MinPlayers..MaxPlayers }

\* ------------------------------------------------------------------- State
\* State.__init__(board)
State(b) ==
    [ houses             |-> [p \in HousePlayers |-> <<>>],
      occupied           |-> [v \in b.vertices |-> None],
      available_vertices |-> b.vertices ]

clone_fresh_available(s) ==
    [ houses             |-> s.houses,
      occupied           |-> s.occupied,
      available_vertices |-> DOMAIN s.occupied ]

\* State.clone(): deep copy, an equal independent value
clone(s) == [ houses             |-> s.houses,
              occupied           |-> s.occupied,
              available_vertices |-> s.available_vertices ]

is_feasible_no_distance_rule(b, s, player, vertex) ==
    /\ vertex \in s.available_vertices
    /\ s.occupied[vertex] = None

is_feasible_next_to_own(b, s, player, vertex) ==
    /\ vertex \in s.available_vertices
    /\ s.occupied[vertex] = None
    /\ \A neighbor \in b.vertex_neighbors[vertex] :
          s.occupied[neighbor] \in {None, player}

\* State.is_feasible(player, vertex)
is_feasible(b, s, player, vertex) ==
    /\ vertex \in s.available_vertices
    /\ s.occupied[vertex] = None
    /\ \A neighbor \in b.vertex_neighbors[vertex] : s.occupied[neighbor] = None

\* State.get_feasible_positions(player): list in set iteration order
get_feasible_positions(b, s, player) ==
    SortedList({v \in s.available_vertices : is_feasible(b, s, player, v)})

Placed_removing_adjacent(s, player, vertex) ==
    [ houses             |-> [s.houses EXCEPT ![player] = Append(@, vertex)],
      occupied           |-> [s.occupied EXCEPT ![vertex] = player],
      available_vertices |-> s.available_vertices \ {vertex - 1, vertex, vertex + 1} ]

\* the three assignments of a successful placement
Placed(s, player, vertex) ==
    [ houses             |-> [s.houses EXCEPT ![player] = Append(@, vertex)],
      occupied           |-> [s.occupied EXCEPT ![vertex] = player],
      available_vertices |-> s.available_vertices \ {vertex} ]

place_settlement_append_first(b, s, player, vertex) ==
    IF vertex \notin s.available_vertices \/ ~is_feasible(b, s, player, vertex)
    THEN [ err |-> "ValueError",
           state |-> [s EXCEPT !.houses[player] = Append(@, vertex)] ]
    ELSE [ err |-> "ok", state |-> Placed(s, player, vertex) ]

\* State.place_settlement(player, vertex): both checks precede any mutation;
\* houses[player] of a player without a list is a KeyError, raised by the
\* first of the three assignments
place_settlement(b, s, player, vertex) ==
    IF vertex \notin s.available_vertices
    THEN [ err |-> "ValueError", state |-> s ]
    ELSE IF ~is_feasible(b, s, player, vertex)
    THEN [ err |-> "ValueError", state |-> s ]
    ELSE IF player \notin DOMAIN s.houses
    THEN [ err |-> "KeyError", state |-> s ]
    ELSE [ err |-> "ok", state |-> Placed(s, player, vertex) ]

\* State.pair_quality(player, v1, v2)
pair_quality(b, s, player, v1, v2) == b.pair_quality[player][v1][v2]

quality_of_player_at_least_two(b, s, player) ==
    LET houses == s.houses[player]
    IN IF Len(houses) < 2
       THEN [ err |-> "ValueError", value |-> NegInf ]
       ELSE [ err |-> "ok",
              value |-> pair_quality(b, s, player, houses[1], houses[2]) ]

\* State.quality_of_player(player)
quality_of_player(b, s, player) ==
    LET houses == s.houses[player]
    IN IF Len(houses) # 2
       THEN [ err |-> "ValueError", value |-> NegInf ]
       ELSE [ err |-> "ok",
              value |-> pair_quality(b, s, player, houses[1], houses[2]) ]

RECURSIVE MaxQuality(_, _, _, _, _)
\* linear scan keeping the maximum, started at -inf
MaxQuality(b, s, player, first_pos, candidates) ==
    IF candidates = <<>> THEN NegInf
    ELSE LET rest == MaxQuality(b, s, player, first_pos, Tail(candidates))
             quality == pair_quality(b, s, player, first_pos, Head(candidates))
         IN IF quality > rest THEN quality ELSE rest

RECURSIVE MinQuality(_, _, _, _, _)
MinQuality(b, s, player, first_pos, candidates) ==
    IF Len(candidates) = 1
    THEN pair_quality(b, s, player, first_pos, Head(candidates))
    ELSE LET rest == MinQuality(b, s, player, first_pos, Tail(candidates))
             quality == pair_quality(b, s, player, first_pos, Head(candidates))
         IN IF quality < rest THEN quality ELSE rest

upper_bound_min(b, s, player, first_pos) ==
    LET candidates == SelectSeq(get_feasible_positions(b, s, player),
                                LAMBDA v : v # first_pos)
    IN IF candidates = <<>> THEN NegInf
       ELSE MinQuality(b, s, player, first_pos, candidates)

\* State.upper_bound_for_player_given_first(player, first_pos)
upper_bound_for_player_given_first(b, s, player, first_pos) ==
    LET candidates == SelectSeq(get_feasible_positions(b, s, player),
                                LAMBDA v : v # first_pos)
    IN IF candidates = <<>> THEN NegInf
       ELSE MaxQuality(b, s, player, first_pos, candidates)

\* ------------------------------------------------------------------ Solver
\* arguments of Solver.__init__: settings of its four flags, each run on a
\* Solver of its own, in this order.  run_experiment constructs settings 4, 2
\* and 1, main.py settings 1 and 8; the others are what a caller of the
\* constructor can pass
FlagSettings ==
    << [enable_pruning |-> TRUE, enable_feasibility |-> TRUE,
        enable_upper_bound |-> TRUE, enable_memo |-> TRUE],
       [enable_pruning |-> TRUE, enable_feasibility |-> TRUE,
        enable_upper_bound |-> FALSE, enable_memo |-> TRUE],
       [enable_pruning |-> TRUE, enable_feasibility |-> TRUE,
        enable_upper_bound |-> TRUE, enable_memo |-> FALSE],
       [enable_pruning |-> TRUE, enable_feasibility |-> TRUE,
        enable_upper_bound |-> FALSE, enable_memo |-> FALSE],
       [enable_pruning |-> TRUE, enable_feasibility |-> FALSE,
        enable_upper_bound |-> TRUE, enable_memo |-> TRUE],
       [enable_pruning |-> TRUE, enable_feasibility |-> FALSE,
        enable_upper_bound |-> FALSE, enable_memo |-> TRUE],
       [enable_pruning |-> TRUE, enable_feasibility |-> FALSE,
        enable_upper_bound |-> TRUE, enable_memo |-> FALSE],
       [enable_pruning |-> FALSE, enable_feasibility |-> TRUE,
        enable_upper_bound |-> TRUE, enable_memo |-> TRUE] >>

EmptyMemo == [k \in {} |-> 0]

\* Solver.__init__(board, enable_pruning, enable_feasibility,
\*                 enable_upper_bound, enable_memo)
Solver(b, m) ==
    LET feas == IF m.enable_pruning THEN m.enable_feasibility ELSE FALSE
        ub   == IF m.enable_pruning THEN m.enable_upper_bound ELSE FALSE
        mem  == IF m.enable_pruning THEN m.enable_memo ELSE FALSE
    IN [ num_players          |-> b.num_players,
         memo                 |-> EmptyMemo,
         enable_feasibility   |-> feas,
         enable_upper_bound   |-> ub,
         enable_memo          |-> mem,
         enable_pruning       |-> (feas \/ ub),
         recursive_calls      |-> 0,
         feasibility_prunings |-> 0,
         upper_bound_prunings |-> 0,
         memo_hits            |-> 0,
         memo_misses          |-> 0 ]

\* the counter and memo reset at the head of Solver.solve
ResetMetrics(sv) ==
    [sv EXCEPT !.recursive_calls = 0, !.feasibility_prunings = 0,
               !.upper_bound_prunings = 0, !.memo_hits = 0,
               !.memo_misses = 0, !.memo = EmptyMemo]

\* State(self.board, num_players=self.num_players): State.__init__ takes
\* the board only, any keyword argument is a TypeError
NewState(b, keywords) ==
    IF keywords # {} THEN [ err |-> "TypeError", state |-> <<>> ]
    ELSE [ err |-> "ok", state |-> <<State(b)>> ]

MemoKey_player_only(player, s) == << player, {}, {} >>

\* memo_key = (player, sorted occupied vertices, sorted available vertices)
MemoKey(player, s) ==
    << player, {v \in DOMAIN s.occupied : s.occupied[v] # None},
       s.available_vertices >>

RECURSIVE PlaceAll(_, _, _)
\* a run of place_settlement calls; the first failure raises
PlaceAll(b, s, moves) ==
    IF moves = <<>> THEN [ err |-> "ok", state |-> s ]
    ELSE LET r == place_settlement(b, s, Head(moves)[1], Head(moves)[2])
         IN IF r.err # "ok" THEN r ELSE PlaceAll(b, r.state, Tail(moves))

RECURSIVE FirstMoves(_, _, _)
\* for p in range(player, num_players + 1): vertices[0] of each decision
FirstMoves(decisions, p, n) ==
    IF p > n THEN <<>>
    ELSE (IF p \in DOMAIN decisions /\ Len(decisions[p]) >= 1
          THEN << <<p, decisions[p][1]>> >> ELSE <<>>)
         \o FirstMoves(decisions, p + 1, n)

RECURSIVE SecondMoves(_, _, _)
\* for p in range(num_players, player - 1, -1): vertices[1] of each decision
SecondMoves(decisions, p, lowest) ==
    IF p < lowest THEN <<>>
    ELSE (IF p \in DOMAIN decisions /\ Len(decisions[p]) >= 2
          THEN << <<p, decisions[p][2]>> >> ELSE <<>>)
         \o SecondMoves(decisions, p - 1, lowest)

\* the memo-hit branch of dfs: replay the cached decisions on a clone
Reconstruct(b, n, player, s, decisions) ==
    PlaceAll(b, clone(s),
             FirstMoves(decisions, player, n) \o SecondMoves(decisions, n, player))

\* candidates paired with their sort key, in candidate order
WithKey(b, s, player, cands, useUB) ==
    [i \in 1..Len(cands) |->
        << IF useUB
           THEN upper_bound_for_player_given_first(b, s, player, cands[i])
           ELSE b.single_quality[cands[i]],
           cands[i] >>]

OrderCandidates_all_available(b, s, player, first_candidates, useUB) ==
    LET sorted == SortDescending(WithKey(b, s, player,
                                         SortedList(s.available_vertices), useUB))
    IN [i \in 1..Len(sorted) |-> sorted[i][2]]

\* the candidate ordering of dfs: feasible candidates, best key first
OrderCandidates(b, s, player, first_candidates, useUB) ==
    LET kept   == SelectSeq(first_candidates,
                            LAMBDA pos : is_feasible(b, s, player, pos))
        sorted == SortDescending(WithKey(b, s, player, kept, useUB))
    IN [i \in 1..Len(sorted) |-> sorted[i][2]]

RECURSIVE BestSecondLast(_, _, _, _, _, _, _)
BestSecondLast(b, s2, player, first_pos, cands, best_pos, best_val) ==
    IF cands = <<>> THEN [ pos |-> best_pos, value |-> best_val ]
    ELSE LET val == pair_quality(b, s2, player, first_pos, Head(cands))
         IN IF val >= best_val
            THEN BestSecondLast(b, s2, player, first_pos, Tail(cands), Head(cands), val)
            ELSE BestSecondLast(b, s2, player, first_pos, Tail(cands), best_pos, best_val)

RECURSIVE BestSecond(_, _, _, _, _, _, _)
\* the linear scan for the best second position: replaced only on val > best
BestSecond(b, s2, player, first_pos, cands, best_pos, best_val) ==
    IF cands = <<>> THEN [ pos |-> best_pos, value |-> best_val ]
    ELSE LET val == pair_quality(b, s2, player, first_pos, Head(cands))
         IN IF val > best_val
            THEN BestSecond(b, s2, player, first_pos, Tail(cands), Head(cands), val)
            ELSE BestSecond(b, s2, player, first_pos, Tail(cands), best_pos, best_val)

\* second_candidates of dfs, computed in the state the later players returned
SecondCandidates(b, s2, player, first_pos) ==
    SelectSeq(get_feasible_positions(b, s2, player), LAMBDA v : v # first_pos)

\* decisions extracted from best_state_for_player before the memo store
Decisions(n, player, best_state) ==
    IF best_state = <<>> THEN [p \in {} |-> <<>>]
    ELSE [p \in {q \in player..n : /\ q \in DOMAIN best_state[1].houses
                                    /\ Len(best_state[1].houses[q]) = 2} |->
             best_state[1].houses[p]]

MemoStore_finite_only(sv, key, value, decisions) ==
    IF sv.enable_memo /\ value # NegInf
    THEN [sv EXCEPT !.memo = (key :> [value |-> value, decisions |-> decisions]) @@ @]
    ELSE sv

MemoStore(sv, key, value, decisions) ==
    IF sv.enable_memo
    THEN [sv EXCEPT !.memo = (key :> [value |-> value, decisions |-> decisions]) @@ @]
    ELSE sv

\* ------------------------------------------------------------ floats
\* Python's float is the IEEE-754 double: 53 significant bits, every result
\* rounded to the nearest double, ties to the even one. A natural number is
\* a sequence of limbs in base 2^15, least significant first, no leading zero
\* limb; a float is m * 2^e with 2^52 <= m < 2^53, or zero, or -inf.
LimbBits == 15
LimbBase == 2^LimbBits
MantissaBits == 53

RECURSIVE Trim(_)
Trim(a) == IF a # <<>> /\ a[Len(a)] = 0 THEN Trim(SubSeq(a, 1, Len(a) - 1)) ELSE a

Limb(a, i) == IF i <= Len(a) THEN a[i] ELSE 0

\* the natural number k < 2^30
NatOf(k) == Trim(<< k % LimbBase, k \div LimbBase >>)

RECURSIVE AddFrom(_, _, _, _)
AddFrom(a, b, i, carry) ==
    IF i > Len(a) /\ i > Len(b) THEN (IF carry = 0 THEN <<>> ELSE << carry >>)
    ELSE LET s == Limb(a, i) + Limb(b, i) + carry
         IN << s % LimbBase >> \o AddFrom(a, b, i + 1, s \div LimbBase)

NatAdd(a, b) == AddFrom(a, b, 1, 0)

RECURSIVE SubFrom(_, _, _, _)
SubFrom(a, b, i, borrow) ==
    IF i > Len(a) THEN <<>>
    ELSE LET d == Limb(a, i) - Limb(b, i) - borrow
         IN << (d + LimbBase) % LimbBase >>
            \o SubFrom(a, b, i + 1, IF d < 0 THEN 1 ELSE 0)

\* a - b for a >= b
NatSub(a, b) == Trim(SubFrom(a, b, 1, 0))

RECURSIVE ScaleFrom(_, _, _, _)
ScaleFrom(a, k, i, carry) ==
    IF i > Len(a) THEN (IF carry = 0 THEN <<>> ELSE << carry >>)
    ELSE LET p == a[i] * k + carry
         IN << p % LimbBase >> \o ScaleFrom(a, k, i + 1, p \div LimbBase)

\* a * k for a limb k
NatScale(a, k) == Trim(ScaleFrom(a, k, 1, 0))

RECURSIVE MulFrom(_, _, _)
MulFrom(a, b, i) ==
    IF i > Len(b) THEN <<>>
    ELSE NatAdd(NatScale(a, b[i]), << 0 >> \o MulFrom(a, b, i + 1))

NatMul(a, b) == Trim(MulFrom(a, b, 1))

RECURSIVE CmpFrom(_, _, _)
CmpFrom(a, b, i) ==
    IF i = 0 THEN 0
    ELSE IF a[i] < b[i] THEN -1
    ELSE IF a[i] > b[i] THEN 1
    ELSE CmpFrom(a, b, i - 1)

\* -1, 0, 1 as a < b, a = b, a > b
NatCmp(a, b) ==
    IF Len(a) < Len(b) THEN -1
    ELSE IF Len(a) > Len(b) THEN 1
    ELSE CmpFrom(a, b, Len(a))

RECURSIVE DivFrom(_, _, _, _)
DivFrom(a, k, i, rem) ==
    IF i = 0 THEN [ q |-> <<>>, r |-> rem ]
    ELSE LET cur  == rem * LimbBase + a[i]
             rest == DivFrom(a, k, i - 1, cur % k)
         IN [ q |-> rest.q \o << cur \div k >>, r |-> rest.r ]

\* quotient and remainder of a by a limb k > 0
NatDiv(a, k) ==
    LET d == DivFrom(a, k, Len(a), 0) IN [ q |-> Trim(d.q), r |-> d.r ]

ShiftLeft(a, s) ==
    IF a = <<>> THEN <<>>
    ELSE [i \in 1..(s \div LimbBits) |-> 0] \o NatScale(a, 2^(s % LimbBits))

ShiftRight(a, s) ==
    IF s \div LimbBits >= Len(a) THEN <<>>
    ELSE NatDiv(SubSeq(a, (s \div LimbBits) + 1, Len(a)), 2^(s % LimbBits)).q

BitLen(a) ==
    IF a = <<>> THEN 0
    ELSE (Len(a) - 1) * LimbBits
         + (CHOOSE k \in 1..LimbBits : 2^(k - 1) <= a[Len(a)] /\ a[Len(a)] < 2^k)

IsOdd(a) == a # <<>> /\ a[1] % 2 = 1

Float(m, e) == [ inf |-> 0, m |-> m, e |-> e ]
Zero == Float(<<>>, 0)
\* -float('inf')
NegInfinity == [ inf |-> -1, m |-> <<>>, e |-> 0 ]

\* the double nearest to n * 2^e, ties to even
Round(n, e) ==
    IF n = <<>> THEN Zero
    ELSE IF BitLen(n) <= MantissaBits
    THEN Float(ShiftLeft(n, MantissaBits - BitLen(n)), e - (MantissaBits - BitLen(n)))
    ELSE LET s  == BitLen(n) - MantissaBits
             q  == ShiftRight(n, s)
             r  == NatSub(n, ShiftLeft(q, s))
             c  == NatCmp(ShiftLeft(r, 1), ShiftLeft(<< 1 >>, s))
             q1 == IF c = 1 \/ (c = 0 /\ IsOdd(q)) THEN NatAdd(q, << 1 >>) ELSE q
         IN IF BitLen(q1) > MantissaBits THEN Float(ShiftRight(q1, 1), e + s + 1)
            ELSE Float(q1, e + s)

MinExp(a, b) == IF a.e < b.e THEN a.e ELSE b.e

\* a + b
fadd(a, b) ==
    IF a.m = <<>> THEN b
    ELSE IF b.m = <<>> THEN a
    ELSE Round(NatAdd(ShiftLeft(a.m, a.e - MinExp(a, b)),
                      ShiftLeft(b.m, b.e - MinExp(a, b))), MinExp(a, b))

\* a - b for a >= b >= 0
fsub(a, b) ==
    IF b.m = <<>> THEN a
    ELSE Round(NatSub(ShiftLeft(a.m, a.e - MinExp(a, b)),
                      ShiftLeft(b.m, b.e - MinExp(a, b))), MinExp(a, b))

\* a * b
fmul(a, b) ==
    IF a.m = <<>> \/ b.m = <<>> THEN Zero
    ELSE Round(NatMul(a.m, b.m), a.e + b.e)

\* float(k) for an int k >= 0
float(k) == Round(NatOf(k), 0)

\* p / q for ints p >= 0 and 0 < q < 2^15: the quotient to 75 binary places,
\* a last bit telling whether anything is left, then rounded
fdiv(p, q) ==
    LET d == NatDiv(ShiftLeft(NatOf(p), 5 * LimbBits), q)
    IN Round(NatAdd(ShiftLeft(d.q, 1), IF d.r # 0 THEN << 1 >> ELSE <<>>),
             -(5 * LimbBits + 1))

\* ------------------------------------------------------------ quality
\* the vertices of the board whose pair qualities are computed, and the
\* tiles they touch (Board.VERTEX_TO_TILES)
QVertices == << 0, 1, 26 >>
tiles_touching == (0 :> << 0, 1 >>) @@ (1 :> << 0, 1, 4 >>) @@ (26 :> << 7, 12 >>)
QTiles == UNION { Range(tiles_touching[v]) : v \in Range(QVertices) }
\* the number tokens dealt to those tiles, with their counts in NUMBER_TOKENS
QTokens == (2 :> 1) @@ (5 :> 2) @@ (11 :> 2)
\* the resources dealt to those tiles; the desert may be among them
QResources == (0 :> "wheat") @@ (1 :> "ore") @@ (4 :> "sheep") @@ (7 :> "wood")
              @@ (12 :> "brick")
\* the tile that is the desert: one of those tiles, or one away from them
QDeserts == { 4, 9 }

\* Board._compute_dice_probabilities
dice_probabilities == [i \in 2..12 |-> fdiv(IF i <= 7 THEN i - 1 ELSE 13 - i, 36)]

\* the tiles after _assign_resources and _assign_number_tokens: the desert
\* keeps number None
Tiles(desert, numbers) ==
    [t \in QTiles |-> IF t = desert THEN [ resource |-> "desert", number |-> None ]
                      ELSE [ resource |-> QResources[t], number |-> numbers[t] ]]

\* the ways NUMBER_TOKENS can fall on the tiles that are not the desert
NumberDeals(desert) ==
    { f \in [QTiles -> DOMAIN QTokens] :
        \A k \in DOMAIN QTokens :
            Cardinality({t \in QTiles : t # desert /\ f[t] = k}) <= QTokens[k] }

TileSets ==
    UNION { { Tiles(desert, numbers) : numbers \in NumberDeals(desert) } :
            desert \in QDeserts }

\* quality_weights: None gives 1/3 each
QualityWeights(quality_weights) ==
    IF quality_weights = <<>>
    THEN [ w_resources |-> fdiv(1, 3), w_expected_cards |-> fdiv(1, 3),
           w_prob_at_least_one |-> fdiv(1, 3) ]
    ELSE quality_weights[1]

\* the part of Board.__init__ the quality functions read
QualityBoard(tiles, quality_weights, num_players) ==
    [ num_players        |-> num_players,
      quality_weights    |-> QualityWeights(quality_weights),
      dice_probabilities |-> dice_probabilities,
      tiles              |-> tiles,
      vertices           |-> QVertices,
      tiles_touching     |-> tiles_touching ]

RECURSIVE Touched(_, _)
\* the tile indices in the order of: for vertex in vertices: for tile_idx in
\* board.tiles_touching[vertex]
Touched(b, vertices) ==
    IF vertices = <<>> THEN <<>>
    ELSE b.tiles_touching[Head(vertices)] \o Touched(b, Tail(vertices))

Producing(b, vertices) ==
    SelectSeq(Touched(b, vertices), LAMBDA t : b.tiles[t].resource # "desert")

resource_score(vertices, b) ==
    IF vertices = <<>> THEN Zero
    ELSE LET num_types   == Cardinality({ b.tiles[t].resource :
                                            t \in Range(Producing(b, vertices)) })
             total_tiles == Len(Producing(b, vertices))
         IN fadd(fmul(float(num_types), float(2)), fmul(float(total_tiles), fdiv(1, 2)))

RECURSIVE ExpectedFrom(_, _, _, _, _)
ExpectedFrom(b, touched, i, expected, counted_tiles) ==
    IF i > Len(touched) THEN expected
    ELSE LET tile_idx == touched[i]
             tile     == b.tiles[tile_idx]
         IN IF tile_idx \in counted_tiles \/ tile.resource = "desert"
               \/ tile.number = None
            THEN ExpectedFrom(b, touched, i + 1, expected, counted_tiles)
            ELSE LET prob == IF tile.number \in DOMAIN b.dice_probabilities
                             THEN b.dice_probabilities[tile.number] ELSE Zero
                 IN ExpectedFrom(b, touched, i + 1,
                                 fadd(expected, fmul(prob, float(1))),
                                 counted_tiles \cup {tile_idx})

expected_cards(vertices, b) ==
    IF vertices = <<>> THEN Zero
    ELSE ExpectedFrom(b, Touched(b, vertices), 1, Zero, {})

RECURSIVE NoResourceFrom(_, _, _, _)
NoResourceFrom(b, number_counts, roll, prob_no_resource) ==
    IF roll > 12 THEN prob_no_resource
    ELSE NoResourceFrom(b, number_counts, roll + 1,
            IF roll \notin number_counts
            THEN fadd(prob_no_resource, b.dice_probabilities[roll])
            ELSE prob_no_resource)

prob_at_least_one(vertices, b) ==
    LET tile_numbers == { b.tiles[t].number :
                            t \in { u \in Range(Producing(b, vertices)) :
                                      b.tiles[u].number # None } }
    IN IF vertices = <<>> \/ tile_numbers = {} THEN Zero
       ELSE fsub(float(1), NoResourceFrom(b, tile_numbers, 2, Zero))

compute_quality(vertices, b, w_resources, w_expected_cards, w_prob_at_least_one) ==
    fadd(fadd(fmul(w_resources, resource_score(vertices, b)),
              fmul(w_expected_cards, expected_cards(vertices, b))),
         fmul(w_prob_at_least_one, prob_at_least_one(vertices, b)))

\* one entry of Board._precompute_pair_quality
PairQualityEntry(b, v1, v2) ==
    IF v1 = v2 THEN NegInfinity
    ELSE compute_quality(<< v1, v2 >>, b, b.quality_weights.w_resources,
                         b.quality_weights.w_expected_cards,
                         b.quality_weights.w_prob_at_least_one)

\* ------------------------------------------------------------ state machine
VARIABLES
    board,         \* the client's Board
    client,        \* "state_api": calls State directly; "search": runs solvers
    st,            \* the State object the state_api client works on
    run,           \* index in FlagSettings of the current Solver
    solver,        \* the current Solver: flags, memo table, counters
    phase,         \* "idle", "running" (dfs called), "solving" (in solve), "returned", "raised"
    stack,         \* the dfs activation records, innermost last
    retval,        \* value returned by the dfs call that finished last: <<>> is None
    results,       \* per finished dfs(1, State(board)) call: outcome and counters
    solve_calls,   \* solve() calls made on the current Solver
    solve_results, \* what each solve() call on the current Solver produced
    ev,            \* the step taken last
    experiment,    \* run_experiment's arguments, <<>> when it is not running
    hpc,           \* run_experiment's position: "off", "loop", "container", "join", "finished"
    iter,          \* iterations of the board loop begun, over all modalities
    solvers,       \* every ExperimentSolver created; the name solver is the last
    containers,    \* every result_container created; the name is bound to the last
    threads,       \* every solve_wrapper thread started, one per iteration
    reports,       \* what run_experiment printed for each finished iteration
    qboard,        \* the Board whose pair_quality is being precomputed, <<>> if none
    qtable,        \* pair_quality so far: <<player, v1, v2>> -> float
    qpos           \* entries of pair_quality computed so far

hvars == << experiment, hpc, iter, solvers, containers, threads, reports >>
qvars == << qboard, qtable, qpos >>

vars == << board, client, st, run, solver, phase, stack, retval, results,
           solve_calls, solve_results, ev, hvars, qvars >>

Event(kind, player, vertex, err, value) ==
    [ kind |-> kind, player |-> player, vertex |-> vertex, err |-> err,
      value |-> value ]

\* what a solve() call leaves behind: its return value or exception, and the
\* counters read by get_metrics
SolveRecord(outcome, final, positions, quality, sv) ==
    [ outcome              |-> outcome,
      final_state          |-> final,
      positions            |-> positions,
      quality              |-> quality,
      recursive_calls      |-> sv.recursive_calls,
      feasibility_prunings |-> sv.feasibility_prunings,
      upper_bound_prunings |-> sv.upper_bound_prunings,
      memo_hits            |-> sv.memo_hits,
      memo_misses          |-> sv.memo_misses,
      memo_size            |-> Cardinality(DOMAIN sv.memo) ]

RunRecord(outcome, final, sv) ==
    [ outcome              |-> outcome,
      final_state          |-> final,
      recursive_calls      |-> sv.recursive_calls,
      feasibility_prunings |-> sv.feasibility_prunings,
      upper_bound_prunings |-> sv.upper_bound_prunings,
      memo_hits            |-> sv.memo_hits,
      memo_misses          |-> sv.memo_misses,
      memo_size            |-> Cardinality(DOMAIN sv.memo) ]

Frame_player_kept(player, s) ==
    [ player                |-> IF player > 1 THEN player - 1 ELSE player,
      state                 |-> s,
      pc                    |-> "enter",
      first_candidates      |-> <<>>,
      idx                   |-> 1,
      best_value            |-> NegInf,
      best_state_for_player |-> <<>>,
      first_pos             |-> None ]

Frame(player, s) ==
    [ player                |-> player,
      state                 |-> s,
      pc                    |-> "enter",
      first_candidates      |-> <<>>,
      idx                   |-> 1,
      best_value            |-> NegInf,
      best_state_for_player |-> <<>>,
      first_pos             |-> None ]

Top == stack[Len(stack)]

\* no Board is under construction
NoQuality ==
    /\ qboard = <<>>
    /\ qtable = <<>>
    /\ qpos = 0

\* run_experiment has not been called
NoExperiment ==
    /\ experiment = <<>>
    /\ hpc = "off"
    /\ iter = 0
    /\ solvers = <<>>
    /\ containers = <<>>
    /\ threads = <<>>
    /\ reports = <<>>
Running == phase \in {"running", "solving"} /\ stack # <<>>

Init ==
    /\ board \in Boards
    /\ client \in {"state_api", "search"}
    /\ client = "state_api" => board.num_players = MinPlayers
    /\ st = State(board)
    /\ run = 1
    /\ solver = Solver(board, FlagSettings[1])
    /\ phase = "idle"
    /\ stack = <<>>
    /\ retval = <<>>
    /\ results = <<>>
    /\ solve_calls = 0
    /\ solve_results = <<>>
    /\ ev = Event("init", 0, 0, "ok", NegInf)
    /\ NoExperiment
    /\ NoQuality

\* ----------------------------------------------------- state_api client
\* st.place_settlement(player, vertex)
PlaceSettlement(player, vertex) ==
    /\ client = "state_api"
    /\ LET r == place_settlement(board, st, player, vertex)
       IN /\ r.err = "ok" => Cardinality(board.vertices \ st.available_vertices) < MaxPlacements
          /\ st' = r.state
          /\ ev' = Event("place_settlement", player, vertex, r.err, NegInf)
    /\ UNCHANGED << qvars, hvars, board, client, run, solver, phase, stack, retval, results,
                    solve_calls, solve_results >>

\* st.quality_of_player(player)
QualityOfPlayer(player) ==
    /\ client = "state_api"
    /\ LET r == quality_of_player(board, st, player)
       IN ev' = Event("quality_of_player", player, None, r.err, r.value)
    /\ UNCHANGED << qvars, hvars, board, client, st, run, solver, phase, stack, retval,
                    results, solve_calls, solve_results >>

\* -------------------------------------------------------- search client
\* the Solver of the next flag setting is constructed once the current one is done
NextSolver ==
    /\ client = "search"
    /\ phase \in {"returned", "raised"}
    /\ run < Len(FlagSettings)
    /\ run' = run + 1
    /\ solver' = Solver(board, FlagSettings[run + 1])
    /\ phase' = "idle"
    /\ retval' = <<>>
    /\ solve_calls' = 0
    /\ solve_results' = <<>>
    /\ ev' = Event("Solver", 0, None, "ok", NegInf)
    /\ UNCHANGED << qvars, hvars, board, client, st, stack, results >>

\* solver.dfs(1, State(board))
CallDfs ==
    /\ client = "search"
    /\ phase = "idle"
    /\ phase' = "running"
    /\ stack' = << Frame(1, State(board)) >>
    /\ ev' = Event("call_dfs", 1, None, "ok", NegInf)
    /\ UNCHANGED << qvars, hvars, board, client, st, run, solver, retval, results,
                    solve_calls, solve_results >>

\* solver.solve(): reset, then State(self.board, num_players=...) and dfs
Solve ==
    /\ client = "search"
    /\ phase = "returned"
    /\ solve_calls < MaxSolveCalls
    /\ solve_calls' = solve_calls + 1
    /\ solver' = ResetMetrics(solver)
    /\ LET initial_state == NewState(board, {"num_players"})
       IN IF initial_state.err # "ok"
          THEN /\ solve_results' = Append(solve_results,
                        SolveRecord(initial_state.err, <<>>, <<>>, NegInf,
                                    ResetMetrics(solver)))
               /\ UNCHANGED << phase, stack >>
          ELSE /\ phase' = "solving"
               /\ UNCHANGED solve_results
               /\ stack' = << Frame(1, initial_state.state[1]) >>
    /\ ev' = Event("solve", 1, None, "ok", NegInf)
    /\ UNCHANGED << qvars, hvars, board, client, st, run, retval, results >>

SolveResult_last_player(final, sv) ==
    IF final = <<>> THEN SolveRecord("returned", <<>>, <<>>, NegInf, sv)
    ELSE IF Len(final[1].houses[sv.num_players]) # 2
    THEN SolveRecord("returned", final, <<>>, NegInf, sv)
    ELSE SolveRecord("returned", final, final[1].houses[1],
                     quality_of_player(board, final[1], 1).value, sv)

\* lines 258-268 of solve, applied to what dfs returned
SolveResult(final, sv) ==
    IF final = <<>> THEN SolveRecord("returned", <<>>, <<>>, NegInf, sv)
    ELSE IF Len(final[1].houses[1]) # 2
    THEN SolveRecord("returned", final, <<>>, NegInf, sv)
    ELSE SolveRecord("returned", final, final[1].houses[1],
                     quality_of_player(board, final[1], 1).value, sv)

\* a dfs activation returns val to its caller
Return(val, sv) ==
    /\ retval' = val
    /\ solver' = sv
    /\ stack' = SubSeq(stack, 1, Len(stack) - 1)
    /\ IF Len(stack) > 1
       THEN UNCHANGED << phase, results, solve_results >>
       ELSE /\ phase' = "returned"
            /\ IF phase = "solving"
               THEN /\ solve_results' = Append(solve_results, SolveResult(val, sv))
                    /\ UNCHANGED results
               ELSE /\ results' = Append(results, RunRecord("returned", val, sv))
                    /\ UNCHANGED solve_results

\* a place_settlement inside dfs raised: the exception leaves every activation
Raise(err, sv) ==
    /\ retval' = <<>>
    /\ solver' = sv
    /\ stack' = <<>>
    /\ IF phase = "solving"
       THEN /\ phase' = "returned"
            /\ solve_results' = Append(solve_results,
                                        SolveRecord(err, <<>>, <<>>, NegInf, sv))
            /\ UNCHANGED results
       ELSE /\ phase' = "raised"
            /\ results' = Append(results, RunRecord(err, <<>>, sv))
            /\ UNCHANGED solve_results

Counted(sv) == [sv EXCEPT !.recursive_calls = @ + 1]

\* dfs entry, player > num_players: the state itself is returned
DfsBaseCase ==
    /\ Running /\ Top.pc = "enter"
    /\ Top.player > solver.num_players
    /\ Return(<<Top.state>>, Counted(solver))
    /\ ev' = Event("base_case", Top.player, None, "ok", NegInf)
    /\ UNCHANGED << qvars, hvars, board, client, st, run, solve_calls >>

MemoHitAt(f) ==
    /\ f.player <= solver.num_players
    /\ solver.enable_memo
    /\ MemoKey(f.player, f.state) \in DOMAIN solver.memo

\* dfs entry, memo hit: the cached decisions are replayed and returned
DfsMemoHit ==
    /\ Running /\ Top.pc = "enter"
    /\ MemoHitAt(Top)
    /\ LET entry == solver.memo[MemoKey(Top.player, Top.state)]
           sv    == [Counted(solver) EXCEPT !.memo_hits = @ + 1]
           r     == Reconstruct(board, solver.num_players, Top.player,
                                Top.state, entry.decisions)
       IN /\ IF r.err = "ok" THEN Return(<<r.state>>, sv) ELSE Raise(r.err, sv)
          /\ ev' = Event("memo_hit", Top.player, None, r.err, entry.value)
    /\ UNCHANGED << qvars, hvars, board, client, st, run, solve_calls >>

Missed(sv) == IF sv.enable_memo THEN [sv EXCEPT !.memo_misses = @ + 1] ELSE sv

\* dfs entry, no feasible first position: -inf is memoized, None returned
DfsNoCandidates ==
    /\ Running /\ Top.pc = "enter"
    /\ Top.player <= solver.num_players
    /\ ~MemoHitAt(Top)
    /\ get_feasible_positions(board, Top.state, Top.player) = <<>>
    /\ Return(<<>>, MemoStore(Missed(Counted(solver)),
                              MemoKey(Top.player, Top.state), NegInf,
                              Decisions(solver.num_players, Top.player, <<>>)))
    /\ ev' = Event("no_candidates", Top.player, None, "ok", NegInf)
    /\ UNCHANGED << qvars, hvars, board, client, st, run, solve_calls >>

\* dfs entry, memo miss with candidates: they are ordered and the loop starts
DfsExpand ==
    /\ Running /\ Top.pc = "enter"
    /\ Top.player <= solver.num_players
    /\ ~MemoHitAt(Top)
    /\ LET first_candidates == get_feasible_positions(board, Top.state, Top.player)
       IN /\ first_candidates # <<>>
          /\ stack' = [stack EXCEPT ![Len(stack)] =
                [@ EXCEPT !.pc = "loop", !.idx = 1,
                          !.first_candidates =
                              OrderCandidates(board, Top.state, Top.player,
                                              first_candidates,
                                              solver.enable_upper_bound)]]
    /\ solver' = Missed(Counted(solver))
    /\ ev' = Event("expand", Top.player, None, "ok", NegInf)
    /\ UNCHANGED << qvars, hvars, board, client, st, run, phase, retval, results,
                    solve_calls, solve_results >>

InLoop == Running /\ Top.pc = "loop" /\ Top.idx <= Len(Top.first_candidates)
Candidate == Top.first_candidates[Top.idx]
Advance(f) == [f EXCEPT !.pc = "loop", !.idx = @ + 1]

\* candidate_ubs.get(first_pos, upper_bound_for_player_given_first(...))
CandidateUB ==
    upper_bound_for_player_given_first(board, Top.state, Top.player, Candidate)

PrunedByUB_if_feasibility_on ==
    /\ solver.enable_feasibility
    /\ solver.enable_upper_bound
    /\ CandidateUB <= Top.best_value

PrunedByUB == solver.enable_upper_bound /\ CandidateUB <= Top.best_value

\* loop body, steps 1 and 2: the candidate is skipped by the feasibility
\* re-check or by the upper bound
DfsPrune ==
    /\ InLoop
    /\ ~is_feasible(board, Top.state, Top.player, Candidate) \/ PrunedByUB
    /\ IF ~is_feasible(board, Top.state, Top.player, Candidate)
       THEN /\ solver' = IF solver.enable_feasibility
                         THEN [solver EXCEPT !.feasibility_prunings = @ + 1]
                         ELSE solver
            /\ ev' = Event("feasibility_pruning", Top.player, Candidate, "ok", NegInf)
       ELSE /\ solver' = [solver EXCEPT !.upper_bound_prunings = @ + 1]
            /\ ev' = Event("upper_bound_pruning", Top.player, Candidate, "ok", CandidateUB)
    /\ stack' = [stack EXCEPT ![Len(stack)] = Advance(@)]
    /\ UNCHANGED << qvars, hvars, board, client, st, run, phase, retval, results,
                    solve_calls, solve_results >>

DfsDescend_in_place ==
    /\ InLoop
    /\ is_feasible(board, Top.state, Top.player, Candidate)
    /\ ~PrunedByUB
    /\ LET r == place_settlement(board, Top.state, Top.player, Candidate)
       IN /\ IF r.err = "ok"
             THEN /\ stack' = Append([stack EXCEPT ![Len(stack)] =
                                        [@ EXCEPT !.pc = "wait", !.first_pos = Candidate,
                                                  !.state = r.state]],
                                     Frame(Top.player + 1, r.state))
                  /\ UNCHANGED << solver, phase, retval, results, solve_results >>
             ELSE Raise(r.err, solver)
          /\ ev' = Event("first_settlement", Top.player, Candidate, r.err, NegInf)
    /\ UNCHANGED << qvars, hvars, board, client, st, run, solve_calls >>

\* loop body, steps 3 and 4: first settlement on a clone, recurse on player + 1
DfsDescend ==
    /\ InLoop
    /\ is_feasible(board, Top.state, Top.player, Candidate)
    /\ ~PrunedByUB
    /\ LET r == place_settlement(board, clone(Top.state), Top.player, Candidate)
       IN /\ IF r.err = "ok"
             THEN /\ stack' = Append([stack EXCEPT ![Len(stack)] =
                                        [@ EXCEPT !.pc = "wait", !.first_pos = Candidate]],
                                     Frame(Top.player + 1, r.state))
                  /\ UNCHANGED << solver, phase, retval, results, solve_results >>
             ELSE Raise(r.err, solver)
          /\ ev' = Event("first_settlement", Top.player, Candidate, r.err, NegInf)
    /\ UNCHANGED << qvars, hvars, board, client, st, run, solve_calls >>

Waiting == Running /\ Top.pc = "wait"

\* loop body, s2 is None: the candidate is skipped
DfsChildNone ==
    /\ Waiting
    /\ retval = <<>>
    /\ stack' = [stack EXCEPT ![Len(stack)] = Advance(@)]
    /\ ev' = Event("child_none", Top.player, Top.first_pos, "ok", NegInf)
    /\ UNCHANGED << qvars, hvars, board, client, st, run, solver, phase, retval, results,
                    solve_calls, solve_results >>

\* loop body, step 5 with no second candidate (or none chosen): skipped
DfsNoSecond ==
    /\ Waiting
    /\ retval # <<>>
    /\ LET cands == SecondCandidates(board, retval[1], Top.player, Top.first_pos)
       IN BestSecond(board, retval[1], Top.player, Top.first_pos, cands,
                     None, NegInf).pos = None
    /\ stack' = [stack EXCEPT ![Len(stack)] = Advance(@)]
    /\ ev' = Event("no_second", Top.player, Top.first_pos, "ok", NegInf)
    /\ UNCHANGED << qvars, hvars, board, client, st, run, solver, phase, retval, results,
                    solve_calls, solve_results >>

Improves_or_ties(branch_value, f) == branch_value >= f.best_value

\* if branch_value > best_value
Improves(branch_value, f) == branch_value > f.best_value

\* loop body, steps 5 and 6: best second settlement, incumbent update
DfsSecond ==
    /\ Waiting
    /\ retval # <<>>
    /\ LET s2    == retval[1]
           cands == SecondCandidates(board, s2, Top.player, Top.first_pos)
           best  == BestSecond(board, s2, Top.player, Top.first_pos, cands,
                               None, NegInf)
           r     == place_settlement(board, clone(s2), Top.player, best.pos)
       IN /\ best.pos # None
          /\ IF r.err = "ok"
             THEN /\ stack' = [stack EXCEPT ![Len(stack)] =
                        IF Improves(best.value, Top)
                        THEN [Advance(@) EXCEPT !.best_value = best.value,
                                                !.best_state_for_player = <<r.state>>]
                        ELSE Advance(@)]
                  /\ UNCHANGED << solver, phase, retval, results, solve_results >>
             ELSE Raise(r.err, solver)
          /\ ev' = Event("second_settlement", Top.player, best.pos, r.err, best.value)
    /\ UNCHANGED << qvars, hvars, board, client, st, run, solve_calls >>

\* after the loop: the node is memoized and the incumbent returned
DfsReturn ==
    /\ Running /\ Top.pc = "loop"
    /\ Top.idx > Len(Top.first_candidates)
    /\ Return(Top.best_state_for_player,
              MemoStore(solver, MemoKey(Top.player, Top.state), Top.best_value,
                        Decisions(solver.num_players, Top.player,
                                  Top.best_state_for_player)))
    /\ ev' = Event("return", Top.player, None, "ok", Top.best_value)
    /\ UNCHANGED << qvars, hvars, board, client, st, run, solve_calls >>

Next ==
    \/ \E player \in MinPlayers - 1 .. MinPlayers, vertex \in Vertices :
          PlaceSettlement(player, vertex)
    \/ \E player \in MinPlayers - 1 .. MinPlayers : QualityOfPlayer(player)
    \/ NextSolver
    \/ CallDfs
    \/ Solve
    \/ DfsBaseCase
    \/ DfsMemoHit
    \/ DfsNoCandidates
    \/ DfsExpand
    \/ DfsPrune
    \/ DfsDescend
    \/ DfsChildNone
    \/ DfsNoSecond
    \/ DfsSecond
    \/ DfsReturn

Spec == Init /\ [][Next]_vars

\* ------------------------------------------- construction with any count
\* Board(seed, num_players=n) and Solver(board) take whatever count they are
\* given: neither __init__ compares it with anything
RequestedPlayers == (MinPlayers - 2)..(MaxPlayers + 1)

InitConstruct ==
    /\ board \in { Board(k, q, n) : k \in GraphKinds, q \in QualityParams,
                                   n \in RequestedPlayers }
    /\ client = "search"
    /\ st = State(board)
    /\ run = 1
    /\ solver = Solver(board, FlagSettings[1])
    /\ phase = "idle"
    /\ stack = <<>>
    /\ retval = <<>>
    /\ results = <<>>
    /\ solve_calls = 0
    /\ solve_results = <<>>
    /\ ev = Event("init", 0, 0, "ok", NegInf)
    /\ NoExperiment
    /\ NoQuality

NextConstruct ==
    \/ CallDfs
    \/ DfsBaseCase
    \/ DfsMemoHit
    \/ DfsNoCandidates
    \/ DfsExpand
    \/ DfsPrune
    \/ DfsDescend
    \/ DfsChildNone
    \/ DfsNoSecond
    \/ DfsSecond
    \/ DfsReturn

SpecConstruct == InitConstruct /\ [][NextConstruct]_vars

\* ------------------------------------------------------- run_experiment
MaxBoards == 1

\* the three modalities of run_experiment, in its order
ExperimentModalities ==
    << [name |-> "Feasibility Pruning Only",
        feasibility |-> TRUE, upper_bound |-> FALSE, memo |-> FALSE],
       [name |-> "Feasibility + Memo",
        feasibility |-> TRUE, upper_bound |-> FALSE, memo |-> TRUE],
       [name |-> "All Prunings (Feasibility + Upper Bound + Memo)",
        feasibility |-> TRUE, upper_bound |-> TRUE, memo |-> TRUE] >>

RECURSIVE ValidIndices(_)
\* [modalities[i] for i in modalities_to_test if 0 <= i < len(modalities)]
ValidIndices(indices) ==
    IF indices = <<>> THEN <<>>
    ELSE LET i == Head(indices)
         IN (IF 0 <= i /\ i < Len(ExperimentModalities)
             THEN << ExperimentModalities[i + 1] >> ELSE <<>>)
            \o ValidIndices(Tail(indices))

\* modalities_to_test is None (here << <<>> >> is a list, <<>> is None) or a
\* list of 0-based indices; an empty selection falls back to all three
SelectedModalities(modalities_to_test) ==
    IF modalities_to_test = <<>> THEN ExperimentModalities
    ELSE IF ValidIndices(modalities_to_test[1]) = <<>> THEN ExperimentModalities
    ELSE ValidIndices(modalities_to_test[1])

\* Board(seed=board_num, num_players=num_players): the seed deals resources
\* and numbers, hence the quality tables; the vertex graph is the same for
\* every seed
BoardOfSeed(seed, num_players) ==
    Board(1, << seed % 2, 1, 0, 1 >>, num_players)

\* ExperimentSolver.__init__: the parent's, with enable_pruning=True
ExperimentSolver(b, modality) ==
    Solver(b, [ enable_pruning     |-> TRUE,
                enable_feasibility |-> modality.feasibility,
                enable_upper_bound |-> modality.upper_bound,
                enable_memo        |-> modality.memo ])

\* {'result': None, 'exception': None, 'completed': False}
ResultContainer == [ result |-> <<>>, exception |-> "None", completed |-> FALSE ]

\* threading.Thread(target=solve_wrapper), started
Thread == [ pc |-> "start", solver |-> 0, raised |-> "None" ]

Modality == SelectedModalities(experiment.modalities_to_test)
TotalIterations == Len(Modality) * experiment.num_boards
\* the loop indices of iteration i
ModalityOf(i) == ((i - 1) \div experiment.num_boards) + 1
BoardNumOf(i) == (i - 1) % experiment.num_boards

Report(kind, detail) ==
    [ modality |-> Modality[ModalityOf(iter)].name, board_num |-> BoardNumOf(iter),
      kind |-> kind, detail |-> detail ]

\* timeouts: set to 0 when a modality begins, one more for each TIMEOUT of
\* its boards (every iteration leaves one report)
Timeouts ==
    Cardinality({i \in 1..Len(reports) : /\ reports[i].kind = "TIMEOUT"
                                         /\ ModalityOf(i) = ModalityOf(iter)})

\* run_experiment(num_boards, time_limit, modalities_to_test, num_players)
InitHarness ==
    /\ experiment \in [ num_boards : 1..MaxBoards,
                        num_players : {MinPlayers},
                        modalities_to_test : { <<>>, << <<2>> >>, << <<1, 5, 0>> >>,
                                               << <<7>> >> } ]
    /\ board = BoardOfSeed(0, experiment.num_players)
    /\ client = "experiment"
    /\ st = State(board)
    /\ run = 1
    /\ solver = Solver(board, FlagSettings[1])
    /\ phase = "idle"
    /\ stack = <<>>
    /\ retval = <<>>
    /\ results = <<>>
    /\ solve_calls = 0
    /\ solve_results = <<>>
    /\ ev = Event("init", 0, 0, "ok", NegInf)
    /\ hpc = "loop"
    /\ iter = 0
    /\ solvers = <<>>
    /\ containers = <<>>
    /\ threads = <<>>
    /\ reports = <<>>
    /\ NoQuality

SVars == << board, client, st, run, solver, phase, stack, retval, results,
            solve_calls, solve_results, qvars >>

\* top of the loop body: solver = ExperimentSolver(board, ...)
HarnessSolver ==
    /\ hpc = "loop"
    /\ iter < TotalIterations
    /\ iter' = iter + 1
    /\ solvers' = Append(solvers,
            ExperimentSolver(BoardOfSeed(BoardNumOf(iter + 1), experiment.num_players),
                             Modality[ModalityOf(iter + 1)]))
    /\ hpc' = "container"
    /\ ev' = Event("ExperimentSolver", 0, None, "ok", NegInf)
    /\ UNCHANGED << SVars, experiment, containers, threads, reports >>

\* result_container = {...}; thread.start(); thread.join(timeout=time_limit)
HarnessStart ==
    /\ hpc = "container"
    /\ containers' = Append(containers, ResultContainer)
    /\ threads' = Append(threads, Thread)
    /\ hpc' = "join"
    /\ ev' = Event("thread_start", 0, None, "ok", NegInf)
    /\ UNCHANGED << SVars, experiment, iter, solvers, reports >>

AfterIteration == IF iter = TotalIterations THEN "finished" ELSE "loop"

\* join returned with the thread still alive: TIMEOUT is printed and the loop
\* continues with the next board
HarnessTimeout ==
    /\ hpc = "join"
    /\ threads[iter].pc # "done"
    /\ reports' = Append(reports, Report("TIMEOUT", "Execution interrupted"))
    /\ hpc' = AfterIteration
    /\ ev' = Event("timeout", 0, None, "ok", NegInf)
    /\ UNCHANGED << SVars, experiment, iter, solvers, containers, threads >>

\* what the loop body prints from the container named result_container
Outcome(container) ==
    IF container.exception # "None" THEN Report("ERROR", container.exception)
    ELSE IF container.result = <<>> THEN Report("ERROR", "TypeError")
    ELSE IF container.result[1].final_state = <<>>
            \/ container.result[1].positions = <<>>
    THEN Report("ERROR", "No solution found")
    ELSE Report("OK", container.result[1].positions)

\* join returned because the thread ended
HarnessJoined ==
    /\ hpc = "join"
    /\ threads[iter].pc = "done"
    /\ reports' = Append(reports, Outcome(containers[Len(containers)]))
    /\ hpc' = AfterIteration
    /\ ev' = Event("joined", 0, None, "ok", NegInf)
    /\ UNCHANGED << SVars, experiment, iter, solvers, containers, threads >>

\* solve_wrapper calls solver.solve(): the name is looked up at the call, and
\* solve first resets the counters and the memo table
ThreadSolve(t) ==
    /\ threads[t].pc = "start"
    /\ solvers' = [solvers EXCEPT ![Len(solvers)] = ResetMetrics(@)]
    /\ threads' = [threads EXCEPT ![t].pc = "solve", ![t].solver = Len(solvers)]
    /\ ev' = Event("thread_solve", 0, None, "ok", NegInf)
    /\ UNCHANGED << SVars, experiment, hpc, iter, containers, reports >>

\* solve goes on: State(self.board, num_players=self.num_players)
ThreadState(t) ==
    /\ threads[t].pc = "solve"
    /\ LET initial_state == NewState(board, {"num_players"})
       IN threads' = IF initial_state.err # "ok"
                     THEN [threads EXCEPT ![t].pc = "except",
                                          ![t].raised = initial_state.err]
                     ELSE [threads EXCEPT ![t].pc = "dfs"]
    /\ ev' = Event("thread_state", 0, None, "ok", NegInf)
    /\ UNCHANGED << SVars, experiment, hpc, iter, solvers, containers, reports >>

\* except Exception as e: result_container['exception'] = e, on the container
\* the name is bound to now
ThreadStoreException(t) ==
    /\ threads[t].pc = "except"
    /\ containers' = [containers EXCEPT ![Len(containers)].exception = threads[t].raised]
    /\ threads' = [threads EXCEPT ![t].pc = "stored"]
    /\ ev' = Event("thread_exception", 0, None, "ok", NegInf)
    /\ UNCHANGED << SVars, experiment, hpc, iter, solvers, reports >>

\* result_container['completed'] = True; the thread is still alive
ThreadCompleted(t) ==
    /\ threads[t].pc = "stored"
    /\ containers' = [containers EXCEPT ![Len(containers)].completed = TRUE]
    /\ threads' = [threads EXCEPT ![t].pc = "completed"]
    /\ ev' = Event("thread_completed", 0, None, "ok", NegInf)
    /\ UNCHANGED << SVars, experiment, hpc, iter, solvers, reports >>

\* solve_wrapper returns and the thread ends: is_alive() is False from here
ThreadEnd(t) ==
    /\ threads[t].pc = "completed"
    /\ threads' = [threads EXCEPT ![t].pc = "done"]
    /\ ev' = Event("thread_end", 0, None, "ok", NegInf)
    /\ UNCHANGED << SVars, experiment, hpc, iter, solvers, containers, reports >>

NextHarness ==
    \/ HarnessSolver
    \/ HarnessStart
    \/ HarnessTimeout
    \/ HarnessJoined
    \/ \E t \in 1..Len(threads) : ThreadSolve(t)
    \/ \E t \in 1..Len(threads) : ThreadState(t)
    \/ \E t \in 1..Len(threads) : ThreadStoreException(t)
    \/ \E t \in 1..Len(threads) : ThreadCompleted(t)
    \/ \E t \in 1..Len(threads) : ThreadEnd(t)

SpecHarness == InitHarness /\ [][NextHarness]_vars

\* ------------------------------------------- Board._precompute_pair_quality
QWeightInputs ==
    { <<>>, << [ w_resources |-> Zero, w_expected_cards |-> float(1),
                 w_prob_at_least_one |-> Zero ] >> }

\* Board(seed, num_players, quality_weights) up to the pair_quality loop
InitQuality ==
    /\ qboard \in { QualityBoard(tiles, w, MinPlayers) :
                       tiles \in TileSets, w \in QWeightInputs }
    /\ qtable = <<>>
    /\ qpos = 0
    /\ board = Board(0, <<0, 0, 0, 1>>, MinPlayers)
    /\ client = "board"
    /\ st = State(board)
    /\ run = 1
    /\ solver = Solver(board, FlagSettings[1])
    /\ phase = "idle"
    /\ stack = <<>>
    /\ retval = <<>>
    /\ results = <<>>
    /\ solve_calls = 0
    /\ solve_results = <<>>
    /\ ev = Event("init", 0, 0, "ok", NegInf)
    /\ NoExperiment

\* the loop indices of the entry computed after n entries
PlayerAt(n) == (n \div (Len(QVertices) * Len(QVertices))) + 1
V1At(n) == QVertices[((n \div Len(QVertices)) % Len(QVertices)) + 1]
V2At(n) == QVertices[(n % Len(QVertices)) + 1]

\* one pass of the innermost loop: pair_quality[player][v1][v2] = ...
PrecomputePairQuality ==
    /\ qboard # <<>>
    /\ PlayerAt(qpos) <= qboard.num_players
    /\ qtable' = qtable @@ (<< PlayerAt(qpos), V1At(qpos), V2At(qpos) >>
                              :> PairQualityEntry(qboard, V1At(qpos), V2At(qpos)))
    /\ qpos' = qpos + 1
    /\ ev' = Event("pair_quality", PlayerAt(qpos), V1At(qpos), "ok", NegInf)
    /\ UNCHANGED << hvars, board, client, st, run, solver, phase, stack, retval,
                    results, solve_calls, solve_results, qboard >>

NextQuality == PrecomputePairQuality

SpecQuality == InitQuality /\ [][NextQuality]_vars

\* ------------------------------------------------------------------ claims
OccupiedVertices(s) == {v \in DOMAIN s.occupied : s.occupied[v] # None}

Opt(o) == IF o = <<>> THEN {} ELSE {o[1]}

\* every State value held anywhere by the search: arguments, incumbents,
\* return values and recorded final states
SearchStates ==
    UNION { Opt(<<stack[i].state>>) \cup Opt(stack[i].best_state_for_player) :
            i \in 1..Len(stack) }
    \cup Opt(retval)
    \cup UNION { Opt(results[i].final_state) : i \in 1..Len(results) }
    \cup UNION { Opt(solve_results[i].final_state) : i \in 1..Len(solve_results) }

AllStates == {st} \cup SearchStates

Finished(i) == i <= Len(results)

Complete(s) == \A p \in 1..board.num_players : Len(s.houses[p]) = 2

ObeysDistanceRule(s) ==
    \A u \in OccupiedVertices(s), v \in OccupiedVertices(s) :
        v \notin board.vertex_neighbors[u]

\* C1: with memoization enabled dfs(1, State(board)) returns the same final
\* state (hence the same player-1 quality) as with memoization disabled, the
\* other flags being equal.
C1_MemoDoesNotChangeResult ==
    \A i \in 1..Len(FlagSettings), j \in 1..Len(FlagSettings) :
        ( /\ Finished(i) /\ Finished(j)
          /\ Solver(board, FlagSettings[i]).enable_memo
          /\ ~Solver(board, FlagSettings[j]).enable_memo
          /\ Solver(board, FlagSettings[i]).enable_upper_bound
               = Solver(board, FlagSettings[j]).enable_upper_bound
          /\ Solver(board, FlagSettings[i]).enable_feasibility
               = Solver(board, FlagSettings[j]).enable_feasibility )
        => results[i].final_state = results[j].final_state

\* C2: with upper-bound pruning disabled (feasibility pruning and memoization
\* on) the search returns the same solution as with all pruning enabled.
C2_UpperBoundDoesNotChangeResult ==
    (Finished(1) /\ Finished(2)) => results[1].final_state = results[2].final_state

\* C3: in every State built by successful place_settlement calls, by the
\* state_api client or inside dfs (search and memo replay), no two occupied
\* vertices are adjacent.
C3_DistanceRule == \A s \in AllStates : ObeysDistanceRule(s)

C3_Witness ==
    /\ ev.kind = "memo_hit"
    /\ retval # <<>>
    /\ Cardinality(OccupiedVertices(retval[1])) >= 4
    /\ \E v \in Vertices : board.vertex_neighbors[v] # {}

WaitingFrames == {i \in 1..Len(stack) : stack[i].pc = "wait"}

\* the states in which the branch of frame i is being completed
DescendantStates(i) ==
    { stack[j].state : j \in (i + 1)..Len(stack) }
    \cup (IF i = Len(stack) THEN Opt(retval) ELSE {})

\* C4: the upper bound of a first position, taken in the node's state, is at
\* least the branch value the player obtains with that first position, and
\* at least the pair quality of any second position still feasible in any
\* state of that branch.
C4_UpperBoundAdmissible ==
    /\ (ev.kind = "second_settlement" /\ stack # <<>>) =>
          ev.value <= upper_bound_for_player_given_first(
                          board, Top.state, Top.player, Top.first_pos)
    /\ \A i \in WaitingFrames : \A s \in DescendantStates(i) :
          \A v \in Range(SecondCandidates(board, s, stack[i].player,
                                          stack[i].first_pos)) :
              pair_quality(board, s, stack[i].player, stack[i].first_pos, v)
                 <= upper_bound_for_player_given_first(
                        board, stack[i].state, stack[i].player, stack[i].first_pos)

C4_Witness ==
    /\ ev.kind = "second_settlement" /\ stack # <<>>
    /\ ev.value < upper_bound_for_player_given_first(
                      board, Top.state, Top.player, Top.first_pos)

\* C5: no player holds more than 2 settlements in any state of a search, and
\* every final state returned by dfs(1, State(board)) has exactly 2
\* settlements for every player 1..N.
C5_TwoSettlementsEach ==
    /\ \A s \in SearchStates : \A p \in HousePlayers : Len(s.houses[p]) <= 2
    /\ \A i \in 1..Len(results) :
          results[i].final_state # <<>> => Complete(results[i].final_state[1])

\* C6: a dfs call at a dead end returns None, whether it is answered by
\* searching or by a memo hit on the entry recorded for the dead end.
C6_DeadEndReturnsNone ==
    /\ ev.kind = "no_candidates" => retval = <<>>
    /\ (ev.kind = "return" /\ ev.value = NegInf) => retval = <<>>
    /\ (ev.kind = "memo_hit" /\ ev.value = NegInf) => retval = <<>>

HasFourIndependent ==
    \E S \in SUBSET Vertices :
        /\ Cardinality(S) = 4
        /\ \A u \in S, v \in S : v \notin board.vertex_neighbors[u]

\* C7: on a 2-player board with 4 mutually non-adjacent vertices every
\* solve() call returns a final state in which both players have exactly 2
\* settlements that obey the distance rule.
C7_TwoPlayerSolveCompletes ==
    (board.num_players = 2 /\ HasFourIndependent) =>
        \A i \in 1..Len(solve_results) :
            /\ solve_results[i].outcome = "returned"
            /\ solve_results[i].final_state # <<>>
            /\ Complete(solve_results[i].final_state[1])
            /\ ObeysDistanceRule(solve_results[i].final_state[1])

\* C8: repeated solve() calls on one Solver return the same terminal state
\* and quality and leave the same counter values.
C8_SolveRepeatable ==
    \A i \in 1..Len(solve_results) :
        /\ solve_results[i].outcome = "returned"
        /\ solve_results[i] = solve_results[1]

Infeasible(s, vertex) ==
    \/ vertex \notin s.available_vertices
    \/ s.occupied[vertex] # None
    \/ \E u \in board.vertex_neighbors[vertex] : s.occupied[u] # None

\* C9: place_settlement on a vertex that is unavailable, occupied or adjacent
\* to an occupied vertex fails with an error and leaves houses, occupied and
\* available_vertices as they were.
C9_FailedPlacementKeepsState ==
    [][ (ev'.kind = "place_settlement" /\ Infeasible(st, ev'.vertex))
            => (ev'.err = "ValueError" /\ st' = st) ]_vars

C9_Witness ==
    /\ ev.kind = "place_settlement" /\ ev.err = "ValueError"
    /\ st.occupied[ev.vertex] = None
    /\ \E u \in board.vertex_neighbors[ev.vertex] : st.occupied[u] # None

\* C10: quality_of_player fails unless the player has exactly two
\* settlements; with two it returns pair_quality[player][first][second] in
\* placement order; the state is unchanged either way.
C10_QualityNeedsExactlyTwo ==
    [][ ev'.kind = "quality_of_player" =>
            /\ st' = st
            /\ LET houses == st.houses[ev'.player]
               IN IF Len(houses) = 2
                  THEN /\ ev'.err = "ok"
                       /\ ev'.value = board.pair_quality[ev'.player][houses[1]][houses[2]]
                  ELSE ev'.err = "ValueError" ]_vars

C10_Witness ==
    /\ ev.kind = "quality_of_player" /\ ev.err = "ok"
    /\ Len(st.houses[ev.player]) = 2
    /\ ev.value # board.pair_quality[ev.player][st.houses[ev.player][2]][st.houses[ev.player][1]]

\* C11: a Board or Solver constructed with a player count outside 2..4 is
\* rejected at construction, so that no dfs call is ever made on it.
C11_OutOfRangeRejected ==
    board.num_players \notin MinPlayers..MaxPlayers =>
        /\ phase = "idle"
        /\ stack = <<>>
        /\ results = <<>>

\* dfs(player, s) on a Solver sv as a function: err is "ok" and state the
\* return value (<<>> for None), or err is the exception that ended the
\* call; solver is the Solver after the call, with its counters and memo
RECURSIVE SearchNode(_, _, _, _)
RECURSIVE SearchLoop(_, _, _, _, _, _, _)
SearchNode(b, sv, player, s) ==
    LET key == MemoKey(player, s)
    IN IF player > sv.num_players
       THEN [ err |-> "ok", state |-> <<s>>, solver |-> Counted(sv) ]
       ELSE IF sv.enable_memo /\ key \in DOMAIN sv.memo
       THEN LET hit == [Counted(sv) EXCEPT !.memo_hits = @ + 1]
                r   == Reconstruct(b, sv.num_players, player, s,
                                   sv.memo[key].decisions)
            IN IF r.err = "ok"
               THEN [ err |-> "ok", state |-> <<r.state>>, solver |-> hit ]
               ELSE [ err |-> r.err, state |-> <<>>, solver |-> hit ]
       ELSE LET first_candidates == get_feasible_positions(b, s, player)
                missed           == Missed(Counted(sv))
            IN IF first_candidates = <<>>
               THEN [ err |-> "ok", state |-> <<>>,
                      solver |-> MemoStore(missed, key, NegInf,
                                           Decisions(sv.num_players, player, <<>>)) ]
               ELSE SearchLoop(b, missed, player, s,
                               OrderCandidates(b, s, player, first_candidates,
                                               sv.enable_upper_bound),
                               NegInf, <<>>)

\* the loop over the ordered first candidates and what follows it; an
\* exception of a placement or of the recursive call leaves the call
SearchLoop(b, sv, player, s, cands, best_value, best_state) ==
    IF cands = <<>>
    THEN [ err |-> "ok", state |-> best_state,
           solver |-> MemoStore(sv, MemoKey(player, s), best_value,
                                Decisions(sv.num_players, player, best_state)) ]
    ELSE IF ~is_feasible(b, s, player, Head(cands))
    THEN SearchLoop(b, IF sv.enable_feasibility
                       THEN [sv EXCEPT !.feasibility_prunings = @ + 1] ELSE sv,
                    player, s, Tail(cands), best_value, best_state)
    ELSE IF sv.enable_upper_bound
            /\ upper_bound_for_player_given_first(b, s, player, Head(cands))
                  <= best_value
    THEN SearchLoop(b, [sv EXCEPT !.upper_bound_prunings = @ + 1],
                    player, s, Tail(cands), best_value, best_state)
    ELSE LET s1 == place_settlement(b, clone(s), player, Head(cands))
         IN IF s1.err # "ok"
            THEN [ err |-> s1.err, state |-> <<>>, solver |-> sv ]
            ELSE LET r == SearchNode(b, sv, player + 1, s1.state)
                 IN IF r.err # "ok" THEN r
                    ELSE IF r.state = <<>>
                    THEN SearchLoop(b, r.solver, player, s, Tail(cands),
                                    best_value, best_state)
                    ELSE LET s2   == r.state[1]
                             best == BestSecond(b, s2, player, Head(cands),
                                                SecondCandidates(b, s2, player,
                                                                 Head(cands)),
                                                None, NegInf)
                             s_final == place_settlement(b, clone(s2), player,
                                                         best.pos)
                         IN IF best.pos = None
                            THEN SearchLoop(b, r.solver, player, s, Tail(cands),
                                            best_value, best_state)
                            ELSE IF s_final.err # "ok"
                            THEN [ err |-> s_final.err, state |-> <<>>,
                                   solver |-> r.solver ]
                            ELSE IF Improves(best.value, [best_value |-> best_value])
                            THEN SearchLoop(b, r.solver, player, s, Tail(cands),
                                            best.value, << s_final.state >>)
                            ELSE SearchLoop(b, r.solver, player, s, Tail(cands),
                                            best_value, best_state)

\* C14: a memo hit at (player, S') returns what searching from S' returns: the
\* entry was recorded for a state with the same occupied and available sets
\* and other owners, and reusing it does not change the result.  Searching
\* is dfs on the same Solver without its memo table.
C14_MemoReuseSameAsSearch ==
    [][ (ev'.kind = "memo_hit" /\ ev'.err = "ok") =>
            LET searched == SearchNode(board,
                                       [solver EXCEPT !.enable_memo = FALSE,
                                                      !.memo = EmptyMemo],
                                       Top.player, Top.state)
            IN searched.err = "ok" /\ searched.state = retval' ]_vars

SetMax(S) == CHOOSE x \in S : \A y \in S : y <= x

\* the best pair quality with first position f over the seconds feasible in
\* s2; -inf stands for "undefined"
BestPairQuality(b, s2, player, f) ==
    SetMax({NegInf} \cup { pair_quality(b, s2, player, f, v) :
                             v \in Range(SecondCandidates(b, s2, player, f)) })

\* branch value of first position f at node (player, s) on Solver sv, as the
\* body of the loop computes it once the candidate is past the skips: the
\* first settlement is placed on a clone, the later players answer with
\* dfs(player + 1, .) on sv, and the value is the best pair quality over the
\* seconds feasible in the state they return; -inf stands for "undefined";
\* err is the exception of the placement or of the call, if one is raised
BranchValue(b, sv, player, s, f) ==
    LET s1 == place_settlement(b, clone(s), player, f)
    IN IF s1.err # "ok" THEN [ err |-> s1.err, value |-> NegInf ]
       ELSE LET r == SearchNode(b, sv, player + 1, s1.state)
            IN IF r.err # "ok" THEN [ err |-> r.err, value |-> NegInf ]
               ELSE [ err   |-> "ok",
                      value |-> IF r.state = <<>> THEN NegInf
                                ELSE BestPairQuality(b, r.state[1], player, f) ]

\* C15: in a node answered by search, with memoization on or off and upper
\* bound pruning on or off: every feasible first position is a candidate of
\* the loop; the value of a branch the loop takes is the best pair quality
\* over the seconds feasible in the state dfs(p + 1, .) returned, undefined
\* when it returned None or no second is feasible; a candidate the loop
\* skips by its upper bound has, in the state dfs(p + 1, .) returns when
\* called at that moment on the same Solver and memo table, no branch value
\* above the incumbent; the incumbent starts undefined and is replaced only
\* by a strictly greater branch value; the node returns None iff no branch
\* had a value, else a state in which the player's pair quality is the
\* incumbent value.  So the value returned is the maximum branch value over
\* all feasible first positions.  Without memoization the branch values do
\* not depend on the moment of the call, and the returned value is also
\* compared with that maximum computed anew for every feasible first.
C15_BackwardInduction ==
    [][ /\ (ev'.kind = "expand") =>
            LET new    == stack'[Len(stack)]
                firsts == get_feasible_positions(board, Top.state, Top.player)
            IN /\ Range(new.first_candidates) = Range(firsts)
               /\ Len(new.first_candidates) = Len(firsts)
               /\ new.idx = 1
               /\ new.best_value = NegInf
               /\ new.best_state_for_player = <<>>
        /\ (ev'.kind = "second_settlement" /\ ev'.err = "ok") =>
            LET new == stack'[Len(stack)]
            IN /\ ev'.value = BestPairQuality(board, retval[1], Top.player, Top.first_pos)
               /\ IF ev'.value > Top.best_value
                  THEN /\ new.best_value = ev'.value
                       /\ new.best_state_for_player =
                             << Placed(retval[1], Top.player, ev'.vertex) >>
                  ELSE /\ new.best_value = Top.best_value
                       /\ new.best_state_for_player = Top.best_state_for_player
        /\ (ev'.kind \in {"child_none", "no_second", "upper_bound_pruning",
                          "feasibility_pruning"}) =>
            /\ stack'[Len(stack)].best_value = Top.best_value
            /\ stack'[Len(stack)].best_state_for_player = Top.best_state_for_player
        /\ (ev'.kind \in {"child_none", "no_second", "upper_bound_pruning",
                          "feasibility_pruning", "second_settlement"}
               /\ ev'.err = "ok") =>
            /\ stack'[Len(stack)].idx = Top.idx + 1
            /\ stack'[Len(stack)].first_candidates = Top.first_candidates
        /\ (ev'.kind = "no_second") =>
            BestPairQuality(board, retval[1], Top.player, Top.first_pos) = NegInf
        /\ (ev'.kind = "upper_bound_pruning") =>
            LET skipped == BranchValue(board, solver, Top.player, Top.state,
                                       ev'.vertex)
            IN /\ ev'.vertex = Top.first_candidates[Top.idx]
               /\ skipped.err = "ok"
               /\ skipped.value <= Top.best_value
        /\ (ev'.kind = "return") =>
            /\ Top.idx = Len(Top.first_candidates) + 1
            /\ retval' = Top.best_state_for_player
            /\ (retval' = <<>>) <=> (Top.best_value = NegInf)
            /\ retval' # <<>> =>
                  quality_of_player(board, retval'[1], Top.player)
                      = [ err |-> "ok", value |-> Top.best_value ]
            /\ ~solver.enable_memo =>
                  LET firsts == Range(get_feasible_positions(board, Top.state,
                                                             Top.player))
                  IN /\ \A f \in firsts :
                          LET branch == BranchValue(board, solver, Top.player,
                                                    Top.state, f)
                          IN branch.err = "ok" /\ branch.value <= Top.best_value
                     /\ \/ Top.best_value = NegInf
                        \/ \E f \in firsts :
                              BranchValue(board, solver, Top.player, Top.state,
                                          f).value = Top.best_value
      ]_vars

C15_Witness ==
    /\ ev.kind = "return" /\ retval # <<>>
    /\ stack # <<>>
    /\ solver.enable_memo /\ solver.enable_upper_bound
    /\ solver.upper_bound_prunings > 0
    /\ solver.memo_hits > 0
    /\ ev.value > 0

\* a state that a snake-order sequence of placements can have produced:
\* firsts in increasing player order, seconds in decreasing player order
\* after every first
SnakeOrdered(s) ==
    \A p \in 1..board.num_players :
        /\ Len(s.houses[p]) >= 1 => \A q \in 1..(p - 1) : Len(s.houses[q]) >= 1
        /\ Len(s.houses[p]) = 2 =>
              \A q \in (p + 1)..board.num_players : Len(s.houses[q]) = 2

\* the placements a memo hit replays, in the order it makes them
ReplayMoves(n, player, decisions) ==
    FirstMoves(decisions, player, n) \o SecondMoves(decisions, n, player)

\* C16: placements follow the snake order 1, ..., N, N, ..., 1 in every state
\* built by the search and at every point of a memo replay: a player places
\* the second settlement only when every later player has both, and a
\* player's list is [first, second].
C16_SnakeOrder ==
    [][ /\ \A s \in SearchStates' : SnakeOrdered(s)
        /\ (ev'.kind = "memo_hit") =>
              LET moves == ReplayMoves(solver.num_players, Top.player,
                               solver.memo[MemoKey(Top.player, Top.state)].decisions)
              IN \A k \in 0..Len(moves) :
                    SnakeOrdered(PlaceAll(board, clone(Top.state),
                                          SubSeq(moves, 1, k)).state)
        /\ ( /\ ev'.kind = "second_settlement" /\ ev'.err = "ok"
             /\ stack'[Len(stack)].best_state_for_player # Top.best_state_for_player )
           => stack'[Len(stack)].best_state_for_player[1].houses[Top.player]
                 = << Top.first_pos, ev'.vertex >>
      ]_vars

\* position of x in a list without duplicates
IndexOf(seq, x) == CHOOSE i \in 1..Len(seq) : seq[i] = x

\* C17: the second position chosen for player p is feasible in the state s2
\* the later players returned, differs from first_pos, has the greatest
\* pair_quality(p, first_pos, v) among such vertices, and is the first of the
\* vertices with that quality in the candidate order.
C17_SecondIsFirstMaximiser ==
    (ev.kind = "second_settlement" /\ ev.err = "ok") =>
        LET s2    == retval[1]
            order == get_feasible_positions(board, s2, Top.player)
            cands == { v \in s2.available_vertices :
                          is_feasible(board, s2, Top.player, v) /\ v # Top.first_pos }
            q(v)  == board.pair_quality[Top.player][Top.first_pos][v]
        IN /\ ev.vertex \in cands
           /\ ev.value = q(ev.vertex)
           /\ \A v \in cands :
                 /\ q(v) <= q(ev.vertex)
                 /\ q(v) = q(ev.vertex) =>
                       IndexOf(order, ev.vertex) <= IndexOf(order, v)

C17_Witness ==
    /\ ev.kind = "second_settlement" /\ ev.err = "ok"
    /\ \E v \in Range(SecondCandidates(board, retval[1], Top.player, Top.first_pos)) :
          /\ v # ev.vertex
          /\ board.pair_quality[Top.player][Top.first_pos][v] = ev.value
    /\ \E v \in Range(SecondCandidates(board, retval[1], Top.player, Top.first_pos)) :
          board.pair_quality[Top.player][Top.first_pos][v] < ev.value

\* t is s after one placement of player on vertex and nothing else
OnlyPlaced(s, t, player, vertex) ==
    /\ DOMAIN t.houses = DOMAIN s.houses
    /\ t.houses[player] = Append(s.houses[player], vertex)
    /\ \A p \in DOMAIN s.houses \ {player} : t.houses[p] = s.houses[p]
    /\ DOMAIN t.occupied = DOMAIN s.occupied
    /\ t.occupied[vertex] = player
    /\ \A v \in DOMAIN s.occupied \ {vertex} : t.occupied[v] = s.occupied[v]
    /\ t.available_vertices = s.available_vertices \ {vertex}
    /\ \A u \in board.vertex_neighbors[vertex] :
          u \in s.available_vertices => u \in t.available_vertices

\* C18: a successful place_settlement(player, vertex) appends the vertex to
\* the player's list, marks it occupied by the player, removes it from the
\* available set and changes nothing else; the neighbours of the vertex stay
\* available.  Checked for the client's calls and for the placements of dfs.
C18_PlacementFrame ==
    [][ /\ (ev'.kind = "place_settlement" /\ ev'.err = "ok") =>
              OnlyPlaced(st, st', ev'.player, ev'.vertex)
        /\ (ev'.kind = "first_settlement" /\ ev'.err = "ok") =>
              OnlyPlaced(Top.state, stack'[Len(stack')].state, Top.player, ev'.vertex)
        /\ ( /\ ev'.kind = "second_settlement" /\ ev'.err = "ok"
             /\ stack'[Len(stack)].best_state_for_player # Top.best_state_for_player )
           => OnlyPlaced(retval[1], stack'[Len(stack)].best_state_for_player[1],
                         Top.player, ev'.vertex)
      ]_vars

C18_Witness ==
    /\ ev.kind = "place_settlement" /\ ev.err = "ok"
    /\ \E u \in board.vertex_neighbors[ev.vertex] : u \in st.available_vertices
    /\ \E p \in HousePlayers \ {ev.player} : st.houses[p] # <<>>

\* available, unoccupied, no neighbour occupied by anyone
FeasibleVertex(s, v) ==
    /\ v \in s.available_vertices
    /\ s.occupied[v] = None
    /\ \A u \in board.vertex_neighbors[v] : s.occupied[u] = None

\* C19: is_feasible(player, vertex) is true exactly for an available,
\* unoccupied vertex with no occupied neighbour (own settlements included),
\* whatever the player argument; get_feasible_positions(player) lists exactly
\* the available vertices for which it holds, each once.
C19_FeasibleExact ==
    \A s \in AllStates : \A p \in HousePlayers :
        /\ \A v \in board.vertices :
              is_feasible(board, s, p, v) <=> FeasibleVertex(s, v)
        /\ LET positions == get_feasible_positions(board, s, p)
           IN /\ Range(positions) = { v \in s.available_vertices : FeasibleVertex(s, v) }
              /\ Len(positions) = Cardinality(Range(positions))

C19_Witness ==
    \E s \in AllStates : \E p \in HousePlayers : \E v \in s.available_vertices :
        /\ s.occupied[v] = None
        /\ \E u \in board.vertex_neighbors[v] : s.occupied[u] = p
        /\ \A u \in board.vertex_neighbors[v] : s.occupied[u] \in {None, p}
        /\ ~is_feasible(board, s, p, v)

\* C20: a dfs call never changes the state it was given: while the call is
\* active and when it returns, the state of every activation is the one it
\* was called with, whatever its callees and its own later branches place;
\* the base case returns the given state, a memo hit and a search return
\* states built on clones; the returned state is not changed by the
\* caller's second placement either.
C20_GivenStateUnchanged ==
    [][ /\ \A i \in 1..Len(stack) :
              i <= Len(stack') => stack'[i].state = stack[i].state
        /\ (ev'.kind = "base_case") => retval' = << Top.state >>
        /\ (ev'.kind \in {"second_settlement", "no_second", "child_none"}
              /\ ev'.err = "ok") => retval' = retval
        /\ (ev'.kind = "first_settlement" /\ ev'.err = "ok") =>
              /\ stack'[Len(stack)].state = Top.state
              /\ stack'[Len(stack')].state # Top.state
      ]_vars

C20_Witness ==
    /\ ev.kind = "first_settlement" /\ ev.err = "ok"
    /\ Len(stack) >= 2
    /\ stack[Len(stack) - 1].idx >= 2
    /\ stack[Len(stack) - 1].best_state_for_player # <<>>
    /\ OccupiedVertices(Top.state)
          = OccupiedVertices(stack[Len(stack) - 1].state) \cup {ev.vertex}

\* C12: once TIMEOUT has been reported for an iteration, the solve of that
\* iteration takes no further step: a thread the report found before or
\* inside solver.solve() stays where it was
C12_TimedOutSolveStops ==
    [][ \A t \in 1..Len(reports) :
           (reports[t].kind = "TIMEOUT" /\ threads[t].pc \in {"start", "solve", "dfs"})
              => threads'[t] = threads[t] ]_vars

\* C13: pair_quality is symmetric: once both entries of a pair of distinct
\* vertices are computed for a player, they are the same float
C13_PairQualitySymmetric ==
    \A key \in DOMAIN qtable :
        << key[1], key[3], key[2] >> \in DOMAIN qtable
            => qtable[key] = qtable[<< key[1], key[3], key[2] >>]

\* C21: every first candidate a dfs node iterates is feasible in the node's
\* state, so the re-check at the head of the loop body never skips one and
\* feasibility_prunings is 0 in every solver, during and after every run
C21_RecheckAlwaysPasses ==
    /\ \A i \in 1..Len(stack) : \A k \in 1..Len(stack[i].first_candidates) :
          is_feasible(board, stack[i].state, stack[i].player,
                      stack[i].first_candidates[k])
    /\ ev.kind # "feasibility_pruning"
    /\ solver.feasibility_prunings = 0
    /\ \A i \in 1..Len(results) : results[i].feasibility_prunings = 0
    /\ \A i \in 1..Len(solve_results) : solve_results[i].feasibility_prunings = 0

\* a finished run with the flag on, and a node past its first candidate whose
\* state has available vertices that are not feasible
C21_Witness ==
    /\ results # <<>>
    /\ results[1].recursive_calls > 1
    /\ solver.enable_feasibility
    /\ InLoop /\ Top.idx > 1
    /\ \E v \in Top.state.available_vertices :
          ~is_feasible(board, Top.state, Top.player, v)

\* C22: every solve() call creates the empty State of the board (all
\* vertices available, none occupied, an empty list for each player 1..N)
\* and calls dfs for player 1 on it
C22_SolveStartsFromEmptyState ==
    [][ ev'.kind = "solve" =>
            /\ phase' = "solving"
            /\ Len(stack') = 1
            /\ stack'[1].player = 1
            /\ stack'[1].pc = "enter"
            /\ stack'[1].state.available_vertices = board.vertices
            /\ \A v \in board.vertices : stack'[1].state.occupied[v] = None
            /\ \A p \in 1..board.num_players : stack'[1].state.houses[p] = <<>> ]_vars

\* C23: the result container of an iteration is written by that iteration's
\* own thread only: a container changes in no step but a step of its thread,
\* also while threads of timed-out iterations are still running
C23_ContainerWrittenByOwnThread ==
    [][ \A i \in 1..Len(containers) :
           containers'[i] # containers[i] => threads'[i] # threads[i] ]_vars

\* C24: every place_settlement call made by dfs succeeds: the first
\* placement on the clone, the second placement on the returned state and
\* every placement of a memo replay; no dfs call ends in an exception
C24_DfsPlacementsSucceed ==
    /\ ev.kind \in {"first_settlement", "second_settlement", "memo_hit"}
          => ev.err = "ok"
    /\ phase # "raised"
    /\ \A i \in 1..Len(results) : results[i].outcome = "returned"

\* a memo hit that replayed both settlements of its player onto a state
\* whose owners differ from those of the state the entry was recorded for
C24_Witness ==
    /\ ev.kind = "memo_hit" /\ ev.err = "ok"
    /\ retval # <<>>
    /\ Len(retval[1].houses[ev.player]) = 2
    /\ retval[1].houses[1][1] > retval[1].houses[2][1]

\* C25: every memo entry under a key of player p is (-inf, no decisions) or
\* holds a finite value with a [first, second] pair for every player p..N,
\* the value being pair_quality(p, first of p, second of p)
C25_MemoEntriesComplete ==
    \A key \in DOMAIN solver.memo :
        LET entry == solver.memo[key]
            p     == key[1]
        IN IF entry.value = NegInf
           THEN DOMAIN entry.decisions = {}
           ELSE /\ \A q \in p..solver.num_players :
                     /\ q \in DOMAIN entry.decisions
                     /\ Len(entry.decisions[q]) = 2
                /\ entry.value =
                     board.pair_quality[p][entry.decisions[p][1]][entry.decisions[p][2]]

\* C26: the state of every dfs(p, S) call has exactly p - 1 occupied
\* vertices, one settlement for each player before p and none for p and the
\* later players, with 1 <= p <= N + 1; so the player of a memo key is the
\* size of its occupied set plus one
C26_EntryStateShape ==
    /\ \A i \in 1..Len(stack) :
          /\ stack[i].player \in 1..(solver.num_players + 1)
          /\ Cardinality(OccupiedVertices(stack[i].state)) = stack[i].player - 1
          /\ \A q \in HousePlayers :
                Len(stack[i].state.houses[q]) = IF q < stack[i].player THEN 1 ELSE 0
    /\ \A key \in DOMAIN solver.memo : key[1] = Cardinality(key[2]) + 1

\* the base-case call of a 4-player search, with entries in the memo table
C26_Witness ==
    /\ stack # <<>>
    /\ Top.pc = "enter"
    /\ Top.player = MaxPlayers + 1
    /\ Len(stack) = MaxPlayers + 1
    /\ DOMAIN solver.memo # {}

\* C27: a non-None final state handed back by solve() holds exactly two
\* settlements of player 1, so lines 258-268 of solve never produce
\* (final_state, None, None), and the quality handed back is
\* pair_quality[1][first_pos][second_pos]; stated for every solve() call and
\* for lines 258-268 applied to what dfs(1, State(board)) returned
C27_SolveReturnShape ==
    /\ \A i \in 1..Len(solve_results) :
          LET r == solve_results[i]
          IN (r.outcome = "returned" /\ r.final_state # <<>>)
                => /\ Len(r.final_state[1].houses[1]) = 2
                   /\ r.positions = r.final_state[1].houses[1]
                   /\ r.quality = board.pair_quality[1][r.positions[1]][r.positions[2]]
    /\ \A i \in 1..Len(results) :
          (results[i].outcome = "returned" /\ results[i].final_state # <<>>)
             => LET r == SolveResult(results[i].final_state, solver)
                IN /\ Len(r.final_state[1].houses[1]) = 2
                   /\ r.positions = r.final_state[1].houses[1]
                   /\ r.quality = board.pair_quality[1][r.positions[1]][r.positions[2]]

\* a finished search from the empty state whose final state leaves a later
\* player without two settlements while player 1 holds two
C27_Witness ==
    \E i \in 1..Len(results) :
        /\ results[i].outcome = "returned"
        /\ results[i].final_state # <<>>
        /\ Len(results[i].final_state[1].houses[solver.num_players]) # 2
        /\ SolveResult(results[i].final_state, solver).positions # <<>>

\* C28: every State value is consistent: the available set is exactly the
\* set of board vertices whose occupied entry is None; occupied[v] = p iff v
\* is in houses[p]; no vertex is in two players' lists or twice in one list.
\* Checked for the client's state and for every state held by the search.
C28_StateConsistent ==
    \A s \in AllStates :
        /\ s.available_vertices = {v \in board.vertices : s.occupied[v] = None}
        /\ \A v \in board.vertices :
              /\ s.occupied[v] \in HousePlayers \cup {None}
              /\ \A p \in HousePlayers :
                    s.occupied[v] = p
                        <=> \E k \in 1..Len(s.houses[p]) : s.houses[p][k] = v
        /\ \A p \in HousePlayers, q \in HousePlayers :
              \A i \in 1..Len(s.houses[p]), j \in 1..Len(s.houses[q]) :
                  s.houses[p][i] = s.houses[q][j] => (p = q /\ i = j)

\* a state built by a memo replay on a clone, holding the settlements of at
\* least two players, while the search keeps other states on its stack
C28_Witness ==
    /\ ev.kind = "memo_hit" /\ ev.err = "ok"
    /\ retval # <<>>
    /\ Cardinality(OccupiedVertices(retval[1])) >= 4
    /\ Len(stack) >= 2

\* C29: enable_feasibility has no effect on the search: for each setting of
\* enable_upper_bound and enable_memo, the search with enable_feasibility off
\* returns the same final state (hence the same quality) and leaves the same
\* recursive_calls, feasibility_prunings, upper_bound_prunings, memo_hits,
\* memo_misses and memo size as the search with it on
C29_FeasibilityFlagNoEffect ==
    \A i \in 1..Len(FlagSettings), j \in 1..Len(FlagSettings) :
        ( /\ Finished(i) /\ Finished(j)
          /\ Solver(board, FlagSettings[i]).enable_feasibility
          /\ ~Solver(board, FlagSettings[j]).enable_feasibility
          /\ Solver(board, FlagSettings[i]).enable_upper_bound
               = Solver(board, FlagSettings[j]).enable_upper_bound
          /\ Solver(board, FlagSettings[i]).enable_memo
               = Solver(board, FlagSettings[j]).enable_memo )
        => results[i] = results[j]

\* all eight searches finished on a board with adjacent vertices, the ones
\* with enable_feasibility off having found a final state, pruned by upper
\* bound and hit the memo table
C29_Witness ==
    /\ Len(results) = Len(FlagSettings)
    /\ \E v \in board.vertices : board.vertex_neighbors[v] # {}
    /\ results[5].final_state # <<>>
    /\ results[5].upper_bound_prunings > 0
    /\ results[6].memo_hits > 0
    /\ results[8].recursive_calls > results[7].recursive_calls

\* C30: memo accounting of a search.  Every dfs call adds one to
\* recursive_calls; a base-case call counts neither as hit nor as miss; with
\* memoization on, every other call counts as exactly one hit or one miss,
\* a hit writes nothing, and the one write of a missed call (at a dead end or
\* on return) goes to a key not yet in the table and changes no other entry,
\* so the table holds one entry for each missed call that has returned and
\* its size is memo_misses when the search ends; with memoization off the
\* table stays empty and both counters stay 0.
C30_MemoAccounting ==
    [][ LET entered == Len(stack) - Len(SelectSeq(stack, LAMBDA f : f.pc = "enter"))
            size    == Cardinality(DOMAIN solver.memo)
            key     == MemoKey(Top.player, Top.state)
            missed  == IF solver.enable_memo THEN 1 ELSE 0
        IN /\ ev'.kind = "base_case" =>
                 /\ solver'.recursive_calls = solver.recursive_calls + 1
                 /\ solver'.memo_hits = solver.memo_hits
                 /\ solver'.memo_misses = solver.memo_misses
                 /\ solver'.memo = solver.memo
           /\ ev'.kind = "memo_hit" =>
                 /\ solver.enable_memo
                 /\ solver'.recursive_calls = solver.recursive_calls + 1
                 /\ solver'.memo_hits = solver.memo_hits + 1
                 /\ solver'.memo_misses = solver.memo_misses
                 /\ solver'.memo = solver.memo
           /\ ev'.kind \in {"no_candidates", "expand"} =>
                 /\ solver'.recursive_calls = solver.recursive_calls + 1
                 /\ solver'.memo_hits = solver.memo_hits
                 /\ solver'.memo_misses = solver.memo_misses + missed
           /\ ev'.kind \in {"feasibility_pruning", "upper_bound_pruning",
                             "first_settlement", "child_none", "no_second",
                             "second_settlement", "return"} =>
                 /\ solver'.recursive_calls = solver.recursive_calls
                 /\ solver'.memo_hits = solver.memo_hits
                 /\ solver'.memo_misses = solver.memo_misses
           /\ (ev'.kind \in {"no_candidates", "return"} /\ solver.enable_memo) =>
                 /\ key \notin DOMAIN solver.memo
                 /\ DOMAIN solver'.memo = DOMAIN solver.memo \cup {key}
                 /\ \A k \in DOMAIN solver.memo : solver'.memo[k] = solver.memo[k]
           /\ ev'.kind \in {"expand", "feasibility_pruning", "upper_bound_pruning",
                             "first_settlement", "child_none", "no_second",
                             "second_settlement"} =>
                 solver'.memo = solver.memo
           /\ (Running /\ solver.enable_memo) => size = solver.memo_misses - entered
           /\ ~solver.enable_memo =>
                 size = 0 /\ solver.memo_hits = 0 /\ solver.memo_misses = 0
           /\ \A i \in 1..Len(results') :
                 IF Solver(board, FlagSettings[i]).enable_memo
                 THEN /\ results'[i].memo_size = results'[i].memo_misses
                      /\ results'[i].memo_hits + results'[i].memo_misses
                            <= results'[i].recursive_calls
                 ELSE /\ results'[i].memo_size = 0
                      /\ results'[i].memo_hits = 0
                      /\ results'[i].memo_misses = 0
           /\ \A i \in 1..Len(solve_results') :
                 /\ solve_results'[i].memo_size = solve_results'[i].memo_misses
                 /\ ~solver'.enable_memo =>
                       (solve_results'[i].memo_hits = 0 /\ solve_results'[i].memo_size = 0)
      ]_vars

\* the return of the root call of a search with memoization on that hit the
\* table, stored a dead-end entry and reached the base case, after which the
\* table holds one entry per miss
C30_Witness ==
    /\ ev.kind = "return"
    /\ stack = <<>>
    /\ solver.enable_memo
    /\ solver.memo_hits > 0
    /\ \E k \in DOMAIN solver.memo : solver.memo[k].value = NegInf
    /\ solver.recursive_calls > solver.memo_hits + solver.memo_misses
    /\ Cardinality(DOMAIN solver.memo) = solver.memo_misses
    /\ results # <<>>

====
